---------------------------- MODULE Spec2Model ----------------------------
(***************************************************************************)
(* Model of setup.py of LoSiTo (the LOFAR Simulation Tool).                *)
(*                                                                         *)
(* The script is straight-line code with one branch.  Each statement of   *)
(* its top level is one action; pc is the line about to execute.  The     *)
(* environment the script runs in (is setuptools installed, can            *)
(* losito._version be imported and does it define __version__, what is at  *)
(* README.md) is chosen in Init and does not change during the run.       *)
(*                                                                         *)
(* Text is modelled as a sequence of one-character strings, so that the   *)
(* text-mode read of README.md, the parsing of the python_requires        *)
(* specifier and the expansion of the package_data globs are computed and *)
(* not assumed.                                                            *)
(***************************************************************************)
EXTENDS Integers, Sequences, FiniteSets, TLC

VARIABLES
    env,               \* the environment: setuptools, losito, readme
    pc,                \* line of setup.py about to execute, "done" or "raised"
    modules,           \* names bound by the import statements so far
    description,       \* module global of line 7
    long_description,  \* module global of lines 8 and 11
    f,                 \* the file object of line 10: "unbound", "open", "closed"
    raised,            \* the uncaught exception that ended the script, or NoException
    setupCalls,        \* the keyword arguments of each call of setup(), in order
    log,               \* history: the steps executed, in order
    pyver,             \* interpreter version offered to the python_requires check
    verdict,           \* outcome of that check
    path,              \* a file of the source tree, relative to the package directory
    bundled            \* outcome of matching it against package_data

scriptVars == <<env, pc, modules, description, long_description, f, raised,
                setupCalls, log>>
requiresVars == <<pyver, verdict>>
dataVars == <<path, bundled>>
vars == <<env, pc, modules, description, long_description, f, raised,
          setupCalls, log, pyver, verdict, path, bundled>>

-----------------------------------------------------------------------------
(* Bounds of the model *)

MaxReadmeLen == 2
MaxMajor == 4
MaxMinor == 7
MaxPatch == 1
MaxDepth == 5

-----------------------------------------------------------------------------
(* Generic helpers on sequences *)

Range(s) == {s[i] : i \in 1..Len(s)}

Drop(s, n) == SubSeq(s, n + 1, Len(s))

SeqsUpTo(S, n) == UNION {[1..k -> S] : k \in 0..n}

Unbound == <<"<unbound>">>
NoException == [exc |-> "none", at |-> "none"]
NoAttr == "<no attribute>"

-----------------------------------------------------------------------------
(* The literals of setup.py *)

\* line 7: description = 'The LOFAR Simulation Tool'
DescriptionLiteral ==
    <<"T","h","e"," ","L","O","F","A","R"," ",
      "S","i","m","u","l","a","t","i","o","n"," ","T","o","o","l">>

\* lines 21-29
classifiers ==
    <<"Programming Language :: Python",
      "Development Status :: Stable",
      "Natural Language :: English",
      "Intended Audience :: Science/Research",
      "Operating System :: POSIX :: Linux",
      "Topic :: Scientific/Engineering :: Astronomy",
      "Topic :: Software Development :: Libraries :: Python Modules">>

\* line 30: python_requires='>=3.6.0' would be the off-by-one slip
python_requires_inclusive == <<">","=","3",".","6",".","0">>

\* line 30: python_requires='>3.6.0'
python_requires == <<">","3",".","6",".","0">>

\* line 31 with a pinned requirement
install_requires_pinned == <<"numpy>=1.0", "scipy", "astropy", "RMextract">>

\* line 31
install_requires == <<"numpy", "scipy", "astropy", "RMextract">>

\* line 32 with one script forgotten
scripts_three == <<"bin/losito", "bin/skymodel", "bin/synthms">>

\* line 32
scripts == <<"bin/losito", "bin/skymodel", "bin/synthms", "bin/tecscreen">>

\* line 33
packages == <<"losito", "losito.operations">>

\* line 34 with a fifth level added
package_data_five ==
    [losito |-> << <<".","/","d","a","t","a","/","*">>,
                   <<".","/","d","a","t","a","/","*","/","*">>,
                   <<".","/","d","a","t","a","/","*","/","*","/","*">>,
                   <<".","/","d","a","t","a","/","*","/","*","/","*","/","*">>,
                   <<".","/","d","a","t","a","/","*","/","*","/","*","/","*","/","*">> >>]

\* line 34: {'losito': ['./data/*','./data/*/*','./data/*/*/*','./data/*/*/*/*']}
package_data ==
    [losito |-> << <<".","/","d","a","t","a","/","*">>,
                   <<".","/","d","a","t","a","/","*","/","*">>,
                   <<".","/","d","a","t","a","/","*","/","*","/","*">>,
                   <<".","/","d","a","t","a","/","*","/","*","/","*","/","*">> >>]

\* lines 13-36 with the version replaced by a fixed default
SetupArgs_fixedversion(ver, desc, longdesc) ==
    [name                 |-> "LoSiTo",
     version              |-> "0.0.0",
     url                  |-> "http://github.com/darafferty/losito/",
     author               |-> "David Rafferty and Herik Edler",
     description          |-> desc,
     long_description     |-> longdesc,
     platforms            |-> "any",
     classifiers          |-> classifiers,
     python_requires      |-> python_requires,
     install_requires     |-> install_requires,
     scripts              |-> scripts,
     packages             |-> packages,
     package_data         |-> package_data,
     include_package_data |-> TRUE]

\* lines 13-36 with description=long_description
SetupArgs_longasshort(ver, desc, longdesc) ==
    [name                 |-> "LoSiTo",
     version              |-> ver,
     url                  |-> "http://github.com/darafferty/losito/",
     author               |-> "David Rafferty and Herik Edler",
     description          |-> longdesc,
     long_description     |-> longdesc,
     platforms            |-> "any",
     classifiers          |-> classifiers,
     python_requires      |-> python_requires,
     install_requires     |-> install_requires,
     scripts              |-> scripts,
     packages             |-> packages,
     package_data         |-> package_data,
     include_package_data |-> TRUE]

\* lines 13-36: the keyword arguments of the setup() call, given the values
\* of losito._version.__version__, description and long_description
SetupArgs(ver, desc, longdesc) ==
    [name                 |-> "LoSiTo",
     version              |-> ver,
     url                  |-> "http://github.com/darafferty/losito/",
     author               |-> "David Rafferty and Herik Edler",
     description          |-> desc,
     long_description     |-> longdesc,
     platforms            |-> "any",
     classifiers          |-> classifiers,
     python_requires      |-> python_requires,
     install_requires     |-> install_requires,
     scripts              |-> scripts,
     packages             |-> packages,
     package_data         |-> package_data,
     include_package_data |-> TRUE]

-----------------------------------------------------------------------------
(* The environment *)

\* values of losito._version.__version__ the script may meet; the script
\* does not validate them
Versions == {"1.0.0", "2.1.dev0"}

\* line 5: the package as found on sys.path
LositoStates ==
    {[importable |-> FALSE, version |-> NoAttr]}
    \cup {[importable |-> TRUE, version |-> v] : v \in Versions \cup {NoAttr}}

\* bytes of README.md: a letter, carriage return, line feed, and a byte
\* that is not valid in the default encoding
Bytes == {"a", "CR", "LF", "0xFF"}

\* lines 9-11: what is at README.md: nothing, a regular readable file, or
\* something that exists and cannot be opened for reading (a directory, a
\* file without read permission)
ReadmeStates ==
    {[kind |-> "absent", bytes |-> <<>>], [kind |-> "unreadable", bytes |-> <<>>]}
    \cup {[kind |-> "file", bytes |-> b] : b \in SeqsUpTo(Bytes, MaxReadmeLen)}

Environments ==
    [setuptools : BOOLEAN, losito : LositoStates, readme : ReadmeStates]

-----------------------------------------------------------------------------
(* Library calls of lines 9-11 *)

\* line 9 with the test inverted to "always there"
os_path_exists_always(r) == TRUE

\* line 9: os.path.exists('README.md')
os_path_exists(r) == r.kind # "absent"

\* line 10: open('README.md'): the exception it raises, or "none"
open_error(r) ==
    CASE r.kind = "absent"     -> "FileNotFoundError"
      [] r.kind = "unreadable" -> "OSError"
      [] OTHER                 -> "none"

\* the default text encoding decodes the bytes
Decodable(bs) == "0xFF" \notin Range(bs)

\* universal newlines of text mode (newline=None): CR LF and a lone CR are
\* each read as LF
RECURSIVE TranslateNewlines(_)
TranslateNewlines(bs) ==
    IF bs = <<>> THEN <<>>
    ELSE IF bs[1] = "CR"
         THEN IF Len(bs) > 1 /\ bs[2] = "LF"
              THEN <<"LF">> \o TranslateNewlines(Drop(bs, 2))
              ELSE <<"LF">> \o TranslateNewlines(Drop(bs, 1))
         ELSE <<bs[1]>> \o TranslateNewlines(Drop(bs, 1))

\* line 11 read as if the file had been opened in binary mode
read_raw(bs) == bs

\* line 11: f.read() on a file opened by open('README.md') (text mode)
read(bs) == TranslateNewlines(bs)

-----------------------------------------------------------------------------
(* python_requires (line 30): the version specifier and what it accepts *)

Digits == {"0","1","2","3","4","5","6","7","8","9"}

DigitValue(c) ==
    CASE c = "0" -> 0 [] c = "1" -> 1 [] c = "2" -> 2 [] c = "3" -> 3
      [] c = "4" -> 4 [] c = "5" -> 5 [] c = "6" -> 6 [] c = "7" -> 7
      [] c = "8" -> 8 [] c = "9" -> 9

\* the characters a comparison operator is written with
OperatorChars == {"<", ">", "=", "!", "~"}

\* s.split(sep)
RECURSIVE Split(_, _)
Split(s, sep) ==
    IF \A i \in 1..Len(s) : s[i] # sep THEN <<s>>
    ELSE LET k == CHOOSE i \in 1..Len(s) :
                      s[i] = sep /\ \A j \in 1..(i - 1) : s[j] # sep
         IN <<SubSeq(s, 1, k - 1)>> \o Split(Drop(s, k), sep)

\* int(digits)
RECURSIVE ParseInt(_)
ParseInt(ds) ==
    IF ds = <<>> THEN 0
    ELSE 10 * ParseInt(SubSeq(ds, 1, Len(ds) - 1)) + DigitValue(ds[Len(ds)])

\* length of the operator that starts the specifier
RECURSIVE OperatorLen(_)
OperatorLen(s) ==
    IF s # <<>> /\ s[1] \in OperatorChars THEN 1 + OperatorLen(Drop(s, 1)) ELSE 0

\* '>3.6.0' -> operator ">", release <<3, 6, 0>>
ParseSpecifier(s) ==
    LET n == OperatorLen(s)
        parts == Split(Drop(s, n), ".")
    IN [op      |-> SubSeq(s, 1, n),
        release |-> [i \in 1..Len(parts) |-> ParseInt(parts[i])]]

\* the i-th release segment, missing segments counting as 0
Segment(r, i) == IF i <= Len(r) THEN r[i] ELSE 0

\* releases compare segment by segment: -1, 0 or 1
RECURSIVE CompareFrom(_, _, _)
CompareFrom(a, b, i) ==
    IF i > Len(a) /\ i > Len(b) THEN 0
    ELSE IF Segment(a, i) < Segment(b, i) THEN -1
    ELSE IF Segment(a, i) > Segment(b, i) THEN 1
    ELSE CompareFrom(a, b, i + 1)

CompareRelease(a, b) == CompareFrom(a, b, 1)

\* a final release v (major, minor, patch) satisfies the specifier
Satisfies(v, spec) ==
    LET c == CompareRelease(v, spec.release)
    IN CASE spec.op = <<">">>      -> c = 1
         [] spec.op = <<">", "=">> -> c >= 0
         [] spec.op = <<"<">>      -> c = -1
         [] spec.op = <<"<", "=">> -> c <= 0
         [] spec.op = <<"=", "=">> -> c = 0
         [] spec.op = <<"!", "=">> -> c # 0

\* the installer compares the running interpreter with python_requires
CheckPythonRequires ==
    /\ verdict = "unchecked"
    /\ verdict' = IF Satisfies(pyver, ParseSpecifier(python_requires))
                  THEN "accepted" ELSE "rejected"
    /\ UNCHANGED <<scriptVars, dataVars, pyver>>

PythonVersions == (0..MaxMajor) \X (0..MaxMinor) \X (0..MaxPatch)

-----------------------------------------------------------------------------
(* package_data (line 34): the glob patterns and the files they select *)

\* the pattern as a list of components below the package directory: split
\* on "/"; a "." component names the directory it is in and is dropped
\* (convert_path removes it, and where it is kept glob resolves it in place)
RECURSIVE DropDot(_)
DropDot(cs) ==
    IF cs = <<>> THEN <<>>
    ELSE IF cs[1] = <<".">> THEN DropDot(Drop(cs, 1))
    ELSE <<cs[1]>> \o DropDot(Drop(cs, 1))

convert_path(pattern) == DropDot(Split(pattern, "/"))

\* glob.has_magic
HasMagic(c) == \E i \in 1..Len(c) : c[i] \in {"*", "?", "["}

\* glob._ishidden
IsHidden(c) == c # <<>> /\ c[1] = "."

\* fnmatch of one name against one pattern component ("*" and "?")
RECURSIVE Fnmatch(_, _)
Fnmatch(name, pat) ==
    IF pat = <<>> THEN name = <<>>
    ELSE IF pat[1] = "*"
         THEN \/ Fnmatch(name, Drop(pat, 1))
              \/ (name # <<>> /\ Fnmatch(Drop(name, 1), pat))
    ELSE IF name = <<>> THEN FALSE
    ELSE (pat[1] = "?" \/ pat[1] = name[1]) /\ Fnmatch(Drop(name, 1), Drop(pat, 1))

\* one path component against one pattern component: a literal must be
\* equal; a wildcard component that does not itself start with "." skips
\* the names that start with "."
MatchComponent(name, pat) ==
    IF HasMagic(pat)
    THEN (IsHidden(pat) \/ ~IsHidden(name)) /\ Fnmatch(name, pat)
    ELSE name = pat

\* glob: the path is among the expansions of the pattern
GlobMatch(p, pattern) ==
    LET cs == convert_path(pattern)
    IN /\ Len(cs) = Len(p)
       /\ \A i \in 1..Len(p) : MatchComponent(p[i], cs[i])

\* build_py.find_data_files: the files matched by some pattern of the package
IsPackageData(p) ==
    \E i \in 1..Len(package_data.losito) : GlobMatch(p, package_data.losito[i])

FindDataFiles ==
    /\ bundled = "unchecked"
    /\ bundled' = IF IsPackageData(path) THEN "yes" ELSE "no"
    /\ UNCHANGED <<scriptVars, requiresVars, path>>

\* file and directory names: plain, starting with a dot, with a dot inside
Names == { <<"x">>, <<".", "h">>, <<"a", ".", "b">> }

\* files of the package directory: a top-level directory, then up to
\* MaxDepth more components, the last being the file
TopLevel == { <<"d","a","t","a">>, <<"d","o","c","s">> }

Paths == {<<t>> \o r : t \in TopLevel, r \in SeqsUpTo(Names, MaxDepth)}

-----------------------------------------------------------------------------
(* The script, one action per statement *)

\* an uncaught exception ends the script at the line that raised it
Raise(exc) ==
    /\ raised' = [exc |-> exc, at |-> pc]
    /\ pc' = "raised"
    /\ log' = Append(log, pc)

\* control moves on to the next statement
Goto(line) ==
    /\ pc' = line
    /\ log' = Append(log, pc)
    /\ raised' = raised

\* line 1: from setuptools import setup, Command
ImportSetuptools ==
    /\ pc = "L1"
    /\ \/ /\ env.setuptools
          /\ modules' = modules \cup {"setuptools"}
          /\ Goto("L3")
       \/ /\ ~env.setuptools
          /\ modules' = modules
          /\ Raise("ModuleNotFoundError")
    /\ UNCHANGED <<requiresVars, dataVars, env, description, long_description, f, setupCalls>>

\* line 3: import os
ImportOs ==
    /\ pc = "L3"
    /\ modules' = modules \cup {"os"}
    /\ Goto("L5")
    /\ UNCHANGED <<requiresVars, dataVars, env, description, long_description, f, setupCalls>>

\* line 5 wrapped in a try/except that swallows the failure and goes on
ImportVersion_swallow ==
    /\ pc = "L5"
    /\ \/ /\ env.losito.importable
          /\ modules' = modules \cup {"losito._version"}
          /\ Goto("L7")
       \/ /\ ~env.losito.importable
          /\ modules' = modules
          /\ raised' = [exc |-> "ModuleNotFoundError", at |-> pc]
          /\ pc' = "L7"
          /\ log' = Append(log, pc)
    /\ UNCHANGED <<requiresVars, dataVars, env, description, long_description, f, setupCalls>>

\* line 5: import losito._version
ImportVersion ==
    /\ pc = "L5"
    /\ \/ /\ env.losito.importable
          /\ modules' = modules \cup {"losito._version"}
          /\ Goto("L7")
       \/ /\ ~env.losito.importable
          /\ modules' = modules
          /\ Raise("ModuleNotFoundError")
    /\ UNCHANGED <<requiresVars, dataVars, env, description, long_description, f, setupCalls>>

\* line 7: description = 'The LOFAR Simulation Tool'
AssignDescription ==
    /\ pc = "L7"
    /\ description' = DescriptionLiteral
    /\ Goto("L8")
    /\ UNCHANGED <<requiresVars, dataVars, env, modules, long_description, f, setupCalls>>

\* line 8: long_description = description
AssignLongDescription ==
    /\ pc = "L8"
    /\ long_description' = description
    /\ Goto("L9")
    /\ UNCHANGED <<requiresVars, dataVars, env, modules, description, f, setupCalls>>

\* line 9: if os.path.exists('README.md'):
TestReadme ==
    /\ pc = "L9"
    /\ \/ /\ os_path_exists(env.readme)
          /\ Goto("L10")
       \/ /\ ~os_path_exists(env.readme)
          /\ Goto("L13")
    /\ UNCHANGED <<requiresVars, dataVars, env, modules, description, long_description, f, setupCalls>>

\* line 10: with open('README.md') as f:
OpenReadme ==
    /\ pc = "L10"
    /\ \/ /\ open_error(env.readme) = "none"
          /\ f' = "open"
          /\ Goto("L11")
       \/ /\ open_error(env.readme) # "none"
          /\ f' = f
          /\ Raise(open_error(env.readme))
    /\ UNCHANGED <<requiresVars, dataVars, env, modules, description, long_description, setupCalls>>

\* line 11: long_description=f.read(), and the exit of the with block,
\* which closes f whether or not read() raised
ReadReadme ==
    /\ pc = "L11"
    /\ f' = "closed"
    /\ \/ /\ Decodable(env.readme.bytes)
          /\ long_description' = read(env.readme.bytes)
          /\ Goto("L13")
       \/ /\ ~Decodable(env.readme.bytes)
          /\ long_description' = long_description
          /\ Raise("UnicodeDecodeError")
    /\ UNCHANGED <<requiresVars, dataVars, env, modules, description, setupCalls>>

\* lines 13-36 with the version read as getattr(..., '__version__', 'unknown')
CallSetup_defaulted ==
    /\ pc = "L13"
    /\ setupCalls' = Append(setupCalls,
           SetupArgs(IF env.losito.version = NoAttr THEN "unknown"
                     ELSE env.losito.version,
                     description, long_description))
    /\ Goto("done")
    /\ UNCHANGED <<requiresVars, dataVars, env, modules, description, long_description, f>>

\* lines 13-36: the arguments are evaluated (line 15 reads
\* losito._version.__version__), then setup() is called with them
CallSetup ==
    /\ pc = "L13"
    /\ \/ /\ env.losito.version # NoAttr
          /\ setupCalls' = Append(setupCalls,
                 SetupArgs(env.losito.version, description, long_description))
          /\ Goto("done")
       \/ /\ env.losito.version = NoAttr
          /\ setupCalls' = setupCalls
          /\ Raise("AttributeError")
    /\ UNCHANGED <<requiresVars, dataVars, env, modules, description, long_description, f>>

ScriptStart ==
    /\ pc = "L1"
    /\ modules = {}
    /\ description = Unbound
    /\ long_description = Unbound
    /\ f = "unbound"
    /\ raised = NoException
    /\ setupCalls = <<>>
    /\ log = <<>>

RequiresIdle == pyver = <<0, 0, 0>> /\ verdict = "unchecked"

DataIdle == path = <<>> /\ bundled = "unchecked"

Init ==
    /\ env \in Environments
    /\ ScriptStart
    /\ RequiresIdle
    /\ DataIdle

Next ==
    \/ ImportSetuptools
    \/ ImportOs
    \/ ImportVersion
    \/ AssignDescription
    \/ AssignLongDescription
    \/ TestReadme
    \/ OpenReadme
    \/ ReadReadme
    \/ CallSetup

Spec == Init /\ [][Next]_vars

\* a default environment for the specifications that do not run the script
DefaultEnv ==
    [setuptools |-> TRUE,
     losito     |-> [importable |-> TRUE, version |-> "1.0.0"],
     readme     |-> [kind |-> "absent", bytes |-> <<>>]]

InitRequires ==
    /\ env = DefaultEnv
    /\ ScriptStart
    /\ pyver \in PythonVersions
    /\ verdict = "unchecked"
    /\ DataIdle

NextRequires == CheckPythonRequires

SpecRequires == InitRequires /\ [][NextRequires]_vars

InitData ==
    /\ env = DefaultEnv
    /\ ScriptStart
    /\ RequiresIdle
    /\ path \in Paths
    /\ bundled = "unchecked"

NextData == FindDataFiles

SpecData == InitData /\ [][NextData]_vars

-----------------------------------------------------------------------------
(* Observations on a run *)

\* the script has ended, by falling off its last line or by an exception
Terminated == pc \in {"done", "raised"}

\* setup() has been called
SetupCalled == setupCalls # <<>>

\* line `l` has been executed
Executed(l) == l \in Range(log)

\* position of line `l` in the history, 0 if it was not executed
Pos(l) == IF Executed(l) THEN CHOOSE i \in 1..Len(log) : log[i] = l ELSE 0

\* if `b` was executed then `a` was, earlier
Before(a, b) == Executed(b) => (Executed(a) /\ Pos(a) < Pos(b))

-----------------------------------------------------------------------------
(* Claims *)

\* C1 as stated: the long_description passed to setup() equals the full
\* contents of README.md when README.md exists, and the short description
\* literal when it does not.
C1_Original ==
    \A i \in 1..Len(setupCalls) :
        setupCalls[i].long_description =
            IF env.readme.kind # "absent" THEN env.readme.bytes
            ELSE DescriptionLiteral

\* C1 amended: the long_description passed to setup() is the text of
\* README.md as a text-mode read returns it, that is its contents with every
\* CR LF pair and every lone CR replaced by LF, when README.md is a file;
\* it is the short description literal when README.md does not exist.
C1_LongDescription ==
    \A i \in 1..Len(setupCalls) :
        /\ env.readme.kind \in {"absent", "file"}
        /\ setupCalls[i].long_description =
               IF env.readme.kind = "file"
               THEN TranslateNewlines(env.readme.bytes)
               ELSE DescriptionLiteral
        /\ ("CR" \notin Range(env.readme.bytes) /\ env.readme.kind = "file"
               => setupCalls[i].long_description = env.readme.bytes)

C1_Witness ==
    /\ SetupCalled
    /\ env.readme = [kind |-> "file", bytes |-> <<"CR", "LF">>]
    /\ setupCalls[1].long_description = <<"LF">>

C3_Original ==
    (Terminated /\ env.setuptools) =>
        raised.at \in {"none", "L9", "L10", "L11"}

\* C3 amended: the README access is not the only fallible step.  The
\* imports of setuptools and of losito._version and the read of
\* losito._version.__version__ raise as well, and nothing is caught.  The
\* script reaches the setup() statement exactly when both imports succeed
\* and README.md is absent or is a file that opens and decodes, and setup()
\* is called exactly when moreover __version__ is defined.
C3_FallibleSteps ==
    Terminated =>
        LET readmeOk == \/ env.readme.kind = "absent"
                        \/ (env.readme.kind = "file"
                              /\ "0xFF" \notin Range(env.readme.bytes))
            importsOk == env.setuptools /\ env.losito.importable
        IN /\ raised.at \in {"none", "L1", "L5", "L10", "L11", "L13"}
           /\ (raised.at = "L1"  <=> ~env.setuptools)
           /\ (raised.at = "L5"  <=> (env.setuptools /\ ~env.losito.importable))
           /\ (raised.at = "L10" <=> (importsOk /\ env.readme.kind = "unreadable"))
           /\ (raised.at = "L11" <=> (importsOk /\ env.readme.kind = "file" /\ ~readmeOk))
           /\ (Executed("L13") <=> (importsOk /\ readmeOk))
           /\ (SetupCalled <=> (importsOk /\ readmeOk /\ env.losito.version # NoAttr))
           /\ (SetupCalled <=> pc = "done")

C3_Witness ==
    /\ pc = "raised"
    /\ raised = [exc |-> "ModuleNotFoundError", at |-> "L5"]
    /\ env.setuptools
    /\ env.readme.kind = "absent"

\* C4: every call of setup() registers exactly the four scripts bin/losito,
\* bin/skymodel, bin/synthms, bin/tecscreen and exactly the two packages
\* losito and losito.operations, whatever README.md is.
C4_ScriptsAndPackages ==
    \A i \in 1..Len(setupCalls) :
        /\ setupCalls[i].scripts =
               <<"bin/losito", "bin/skymodel", "bin/synthms", "bin/tecscreen">>
        /\ Cardinality(Range(setupCalls[i].scripts)) = 4
        /\ setupCalls[i].packages = <<"losito", "losito.operations">>
        /\ Cardinality(Range(setupCalls[i].packages)) = 2

C4_Witness ==
    /\ SetupCalled
    /\ env.readme.kind = "file"
    /\ Len(setupCalls[1].scripts) = 4

\* C5: the version passed to setup() is the value of
\* losito._version.__version__, for every value of it; it is never
\* replaced by a default.
C5_Version ==
    \A i \in 1..Len(setupCalls) :
        /\ env.losito.version # NoAttr
        /\ setupCalls[i].version = env.losito.version

C5_Witness ==
    /\ SetupCalled
    /\ env.losito.version = "2.1.dev0"
    /\ setupCalls[1].version = "2.1.dev0"

\* C6: the install requirements passed to setup() are exactly numpy, scipy,
\* astropy and RMextract, each a bare name without a version constraint.
C6_InstallRequires ==
    \A i \in 1..Len(setupCalls) :
        /\ Len(setupCalls[i].install_requires) = 4
        /\ Range(setupCalls[i].install_requires) =
               {"numpy", "scipy", "astropy", "RMextract"}

C6_Witness ==
    /\ SetupCalled
    /\ setupCalls[1].install_requires[4] = "RMextract"

\* C7: the python_requires constraint accepts an interpreter version
\* major.minor.patch if and only if it is strictly greater than 3.6.0;
\* 3.6.0 and everything below are rejected.
C7_PythonRequires ==
    verdict # "unchecked" =>
        (verdict = "accepted" <=>
            \/ pyver[1] > 3
            \/ (pyver[1] = 3 /\ pyver[2] > 6)
            \/ (pyver[1] = 3 /\ pyver[2] = 6 /\ pyver[3] > 0))

C7_Witness ==
    /\ pyver = <<3, 6, 0>>
    /\ verdict = "rejected"

\* C8 as stated: a file below data/ matches one of the package_data
\* patterns if and only if it has between 1 and 4 path components below
\* data/.
C8_Original ==
    (bundled # "unchecked" /\ Len(path) >= 2 /\ path[1] = <<"d","a","t","a">>) =>
        (bundled = "yes" <=> (Len(path) - 1) \in 1..4)

\* C8 amended: a file below data/ matches one of the package_data patterns
\* if and only if it has between 1 and 4 path components below data/ and
\* none of these components (directory or file name) starts with a dot;
\* deeper files, dot-files and files under dot-directories match no
\* pattern, and neither does any file outside data/.
C8_PackageData ==
    bundled # "unchecked" =>
        (bundled = "yes" <=>
            /\ path[1] = <<"d","a","t","a">>
            /\ (Len(path) - 1) \in 1..4
            /\ \A i \in 2..Len(path) : path[i][1] # ".")

C8_Witness ==
    /\ path = << <<"d","a","t","a">>, <<"x">>, <<".", "h">> >>
    /\ bundled = "no"

\* C9: README.md affects only long_description: the description passed to
\* setup() is always the literal 'The LOFAR Simulation Tool', and every
\* other argument has a value that does not depend on README.md.
C9_Frame ==
    \A i \in 1..Len(setupCalls) :
        LET a == setupCalls[i]
        IN /\ a.description = DescriptionLiteral
           /\ a.name = "LoSiTo"
           /\ a.version = env.losito.version
           /\ a.url = "http://github.com/darafferty/losito/"
           /\ a.author = "David Rafferty and Herik Edler"
           /\ a.platforms = "any"
           /\ Len(a.classifiers) = 7
           /\ a.python_requires = <<">","3",".","6",".","0">>
           /\ a.install_requires = <<"numpy", "scipy", "astropy", "RMextract">>
           /\ a.scripts = <<"bin/losito", "bin/skymodel", "bin/synthms", "bin/tecscreen">>
           /\ a.packages = <<"losito", "losito.operations">>
           /\ Len(a.package_data.losito) = 4
           /\ a.include_package_data = TRUE

C9_Witness ==
    /\ SetupCalled
    /\ env.readme.kind = "file"
    /\ setupCalls[1].long_description = <<"a", "a">>
    /\ setupCalls[1].description = DescriptionLiteral

\* C10: every line runs at most once and in order: losito._version is
\* imported before the README check, the check before the open, the open
\* before the read, and setup() is called at most once, after the import
\* and the check and after the read when there is one; when the import of
\* losito._version fails, README.md is never tested, opened or read and
\* setup() is never called.
C10_Order ==
    /\ \A i, j \in 1..Len(log) : log[i] = log[j] => i = j
    /\ Before("L5", "L9")
    /\ Before("L9", "L10")
    /\ Before("L10", "L11")
    /\ Before("L5", "L13")
    /\ Before("L9", "L13")
    /\ (Executed("L13") /\ Executed("L10"))
          => (Executed("L11") /\ Pos("L11") < Pos("L13") /\ f = "closed")
    /\ \A i \in 1..Len(log) : i > Pos("L13") /\ Executed("L13") => FALSE
    /\ Len(setupCalls) <= 1
    /\ SetupCalled => Executed("L13")
    /\ Executed("L5") => ("losito._version" \in modules <=> raised.at # "L5")
    /\ raised.at = "L5" =>
          /\ ~Executed("L9") /\ ~Executed("L10") /\ ~Executed("L11")
          /\ ~Executed("L13")
          /\ f = "unbound"
          /\ setupCalls = <<>>

C10_Witness ==
    /\ pc = "done"
    /\ log = <<"L1", "L3", "L5", "L7", "L8", "L9", "L10", "L11", "L13">>
    /\ Len(setupCalls) = 1
====
